---- MODULE Spec2Model ----
(***************************************************************************)
(* enable-budget: a read-only client of a bank-aggregation REST API, as a  *)
(* command-line tool (enable_budget_cli.py) and a Flask web front end      *)
(* (enable_budget_web.py).                                                 *)
(*                                                                         *)
(* One invocation runs at a time: a CLI command (a process that ends with  *)
(* an exit code) or a web route (a handler that ends with a response).     *)
(* The handlers are operators from their inputs (arguments, stored state,  *)
(* the bank's answer) to their outcome; the actions draw the inputs and    *)
(* apply them.  The transactions fetch is a loop: one action per turn.     *)
(*                                                                         *)
(* Spec takes the web handlers as served and the before_request hook as    *)
(* run before each of them.  SpecLoad is the execution of the web module's *)
(* top-level statements, which is what creates the app and registers the   *)
(* hook and the routes on it.                                              *)
(***************************************************************************)
EXTENDS Integers, Sequences, FiniteSets, TLC

VARIABLES
    jwtOK,        \* ENABLE_APP_ID and the private key are present and sign
    localState,   \* content of LOCAL_STATE (.enable_budget_local.json); {} when absent
    session,      \* the browser's Flask session (signed cookie)
    webState,     \* content of WEB_STATE_FILE; {} when absent
    op,           \* the command or route of the current / last invocation
    args,         \* its arguments
    pc,           \* "idle" | "fetching" | "done"
    requests,     \* HTTP requests this invocation has sent, in order
    lastResp,     \* status and body of the last response received (status 0: none)
    stdout,       \* CLI: what was printed on stdout
    stderr,       \* CLI: what was printed on stderr
    exitCode,     \* CLI: exit status once pc = "done"
    webResp,      \* web: the response of the route once pc = "done"
    all_tx,       \* fetch loop: transactions accumulated so far
    params,       \* fetch loop: query parameters of the next request
    pages,        \* fetch loop: pages read so far
    flat_obj,     \* _flatten on its own: the value handed to it
    flat_out,     \* _flatten on its own: the row it returned
    load          \* execution of enable_budget_web.py's top-level statements

vars == <<jwtOK, localState, session, webState, op, args, pc, requests, lastResp,
          stdout, stderr, exitCode, webResp, all_tx, params, pages,
          flat_obj, flat_out, load>>

----------------------------------------------------------------------------
(* Values *)

\* Python's None, and an absent key as dict.get returns it
None == "None"

\* dict: a function from the keys present to their values
EmptyDict == [k \in {} |-> None]

Put(d, k, v) == [x \in (DOMAIN d) \cup {k} |-> IF x = k THEN v ELSE d[x]]

\* d.get(k) for a string-valued key
GetStr(d, k) == IF k \in DOMAIN d THEN d[k] ELSE None

\* d.get("accounts") or []
GetAccounts(d) == IF "accounts" \in DOMAIN d THEN d["accounts"] ELSE <<>>

\* Python truthiness of an optional string: None and "" are false
Truthy(s) == s # None /\ s # ""

\* s.strip() on the strings the model draws: a blank string strips to ""
Strip(s) == IF s = " " THEN "" ELSE s

\* any(p(x) for x in seq)
AnyUid(accounts, uid) == \E i \in 1..Len(accounts) : accounts[i].uid = uid

----------------------------------------------------------------------------
(* The bank API's answers *)


\* an account of a /sessions answer; its uid may be unset (acc.get("uid") is None)
Account(uid) == [uid |-> uid]

AccountLists ==
    { <<>>, <<Account("u1")>>, <<Account("u2")>>, <<Account(None)>>,
      <<Account("u1"), Account("u2")>> }

ErrStatuses == {401, 422, 500}
ErrBodies == {"e1", "e2"}

\* no answer at all: requests.RequestException (status 0)
NetFail == [status |-> 0, body |-> "network"]

FailResponses == {[status |-> s, body |-> b] : s \in ErrStatuses, b \in ErrBodies}

AuthResponses ==
    {[status |-> 200, body |-> "ok", url |-> u] : u \in {"https://bank", None}}
    \cup {[status |-> r.status, body |-> r.body, url |-> None] : r \in FailResponses \cup {NetFail}}

SessionsResponses ==
    {[status |-> 200, body |-> "ok", session_id |-> "s1", accounts |-> a] : a \in AccountLists}
    \cup {[status |-> r.status, body |-> r.body, session_id |-> None, accounts |-> <<>>] :
            r \in FailResponses \cup {NetFail}}

BalancesResponses ==
    {[status |-> 200, body |-> "ok", data |-> "balances"]}
    \cup {[status |-> r.status, body |-> r.body, data |-> None] : r \in FailResponses \cup {NetFail}}

\* datetime.now(timezone.utc).isoformat()
Timestamps == {"t1"}

----------------------------------------------------------------------------
(* HTTP requests *)

\* absent / "" / " " / other text / text of the form Y-M-D (pad: zero-padded as
\* isoformat writes it), for the date arguments
DAbsent == [kind |-> "absent", y |-> 0, m |-> 0, d |-> 0, pad |-> FALSE]
DEmpty == [kind |-> "empty", y |-> 0, m |-> 0, d |-> 0, pad |-> FALSE]
DBlank == [kind |-> "blank", y |-> 0, m |-> 0, d |-> 0, pad |-> FALSE]
DGarbage == [kind |-> "text", y |-> 0, m |-> 0, d |-> 0, pad |-> FALSE]
Ymd(y, m, d, pad) == [kind |-> "ymd", y |-> y, m |-> m, d |-> d, pad |-> pad]

\* query parameters of a request (continuation_key 0: none)
Params(date_from, date_to, key) ==
    [date_from |-> date_from, date_to |-> date_to, continuation_key |-> key]

NoParams == Params(DAbsent, DAbsent, 0)

\* _request(method, path, params): method.upper(), the path's segments, the query
Request(method, path, prm) == [method |-> method, path |-> path, params |-> prm]

\* what the model keeps of an answer: status, body, and a page's continuation_key
NoResp == [status |-> 0, body |-> None, continuation_key |-> 0]

Received(resp) == [status |-> resp.status, body |-> resp.body, continuation_key |-> 0]

ReceivedPage(resp) ==
    [status |-> resp.status, body |-> resp.body,
     continuation_key |-> resp.page.continuation_key]

----------------------------------------------------------------------------
(* CLI: outcome of a command *)

Msg(text, status, body) == [text |-> text, status |-> status, body |-> body]

\* the process ran to its end
Exit(reqs, resp, out, err, code, st) ==
    [done |-> TRUE, requests |-> reqs, lastResp |-> resp, stdout |-> out, stderr |-> err,
     exitCode |-> code, localState |-> st]


\* _die(msg): print on stderr, sys.exit(1)
_die(reqs, resp, msg, st) == Exit(reqs, resp, <<>>, <<msg>>, 1, st)

\* _request when the JWT cannot be built (_build_jwt dies before anything is sent)
JwtDie(st) == _die(<<>>, NoResp, Msg("jwt", 0, None), st)

\* _request when requests raises RequestException
NetDie(reqs, st) == _die(reqs, NoResp, Msg("network", 0, None), st)

cmd_auth_url_exit0(a, st, jwt, resp) ==
    LET req == Request("POST", <<"auth">>, NoParams) IN
    IF ~jwt THEN JwtDie(st)
    ELSE IF resp.status = 0 THEN NetDie(<<req>>, st)
    ELSE IF resp.status = 200 THEN
        IF ~Truthy(resp.url)
        THEN _die(<<req>>, Received(resp), Msg("Reponse /auth sans url", 0, None), st)
        ELSE Exit(<<req>>, Received(resp), <<[kind |-> "auth_url", url |-> resp.url]>>, <<>>, 0, st)
    ELSE IF resp.status = 422 THEN
        Exit(<<req>>, Received(resp), <<>>,
             <<Msg("Reponse 422 /auth", 422, resp.body), Msg("Astuce 422", 0, None)>>, 0, st)
    ELSE _die(<<req>>, Received(resp), Msg("Echec /auth", resp.status, resp.body), st)

\* cmd_auth_url: POST /auth -> { url }
cmd_auth_url(a, st, jwt, resp) ==
    LET req == Request("POST", <<"auth">>, NoParams) IN
    IF ~jwt THEN JwtDie(st)
    ELSE IF resp.status = 0 THEN NetDie(<<req>>, st)
    ELSE IF resp.status = 200 THEN
        IF ~Truthy(resp.url)
        THEN _die(<<req>>, Received(resp), Msg("Reponse /auth sans url", 0, None), st)
        ELSE Exit(<<req>>, Received(resp), <<[kind |-> "auth_url", url |-> resp.url]>>, <<>>, 0, st)
    ELSE IF resp.status = 422 THEN
        Exit(<<req>>, Received(resp), <<>>,
             <<Msg("Reponse 422 /auth", 422, resp.body), Msg("Astuce 422", 0, None)>>, 1, st)
    ELSE _die(<<req>>, Received(resp), Msg("Echec /auth", resp.status, resp.body), st)

\* cmd_exchange_code: POST /sessions { code } -> session_id + accounts[], memorised
cmd_exchange_code(a, st, jwt, resp, now) ==
    LET req == Request("POST", <<"sessions">>, NoParams) IN
    IF ~jwt THEN JwtDie(st)
    ELSE IF resp.status = 0 THEN NetDie(<<req>>, st)
    ELSE IF resp.status # 200
    THEN _die(<<req>>, Received(resp), Msg("Echec /sessions", resp.status, resp.body), st)
    ELSE LET st2 == Put(Put(Put(st, "session_id", resp.session_id),
                            "accounts", resp.accounts), "updated_at", now)
         IN Exit(<<req>>, Received(resp),
                 <<[kind |-> "session", accounts |-> resp.accounts]>>, <<>>, 0, st2)

_get_default_account_uid_no_default(st, allow_single) ==
    LET accounts == GetAccounts(st) IN
    IF allow_single /\ Len(accounts) = 1 THEN accounts[1].uid
    ELSE None

\* _get_default_account_uid: the stored default if cached, else the only account
_get_default_account_uid(st, allow_single) ==
    LET accounts == GetAccounts(st)
        default_uid == GetStr(st, "default_account_uid")
    IN IF Truthy(default_uid) /\ AnyUid(accounts, default_uid) THEN default_uid
       ELSE IF allow_single /\ Len(accounts) = 1 THEN accounts[1].uid
       ELSE None

\* cmd_list_accounts: prints the memorised accounts; no request
cmd_list_accounts(a, st) ==
    LET accounts == GetAccounts(st) IN
    IF accounts = <<>>
    THEN _die(<<>>, NoResp, Msg("Aucun compte memorise", 0, None), st)
    ELSE Exit(<<>>, NoResp,
              <<[kind |-> "accounts", accounts |-> accounts,
                 default |-> _get_default_account_uid(st, FALSE)]>>, <<>>, 0, st)

cmd_set_default_account_unchecked(a, st) ==
    LET uid == a.account_uid
        accounts == GetAccounts(st)
    IN IF ~Truthy(uid) THEN _die(<<>>, NoResp, Msg("--account-uid est requis", 0, None), st)
       ELSE IF accounts = <<>>
       THEN _die(<<>>, NoResp, Msg("Aucun compte en cache", 0, None), st)
       ELSE Exit(<<>>, NoResp, <<[kind |-> "default_set", uid |-> uid]>>, <<>>, 0,
                 Put(st, "default_account_uid", uid))

\* cmd_set_default_account: stores the default uid when it is a cached account's
cmd_set_default_account(a, st) ==
    LET uid == a.account_uid
        accounts == GetAccounts(st)
    IN IF ~Truthy(uid) THEN _die(<<>>, NoResp, Msg("--account-uid est requis", 0, None), st)
       ELSE IF accounts = <<>>
       THEN _die(<<>>, NoResp, Msg("Aucun compte en cache", 0, None), st)
       ELSE IF ~AnyUid(accounts, uid)
       THEN _die(<<>>, NoResp, Msg("UID inconnu", 0, None), st)
       ELSE Exit(<<>>, NoResp, <<[kind |-> "default_set", uid |-> uid]>>, <<>>, 0,
                 Put(st, "default_account_uid", uid))

\* uid = args.account_uid or _get_default_account_uid()
ChooseUid(a, st) ==
    IF Truthy(a.account_uid) THEN a.account_uid ELSE _get_default_account_uid(st, TRUE)

NoUidMsg == Msg("Aucun UID fourni", 0, None)

cmd_balances_post(a, st, jwt, resp) ==
    LET uid == ChooseUid(a, st)
        req == Request("POST", <<"accounts", uid, "balances">>, NoParams)
    IN IF ~Truthy(uid) THEN _die(<<>>, NoResp, NoUidMsg, st)
       ELSE IF ~jwt THEN JwtDie(st)
       ELSE IF resp.status = 0 THEN NetDie(<<req>>, st)
       ELSE IF resp.status # 200
       THEN _die(<<req>>, Received(resp), Msg("Echec balances", resp.status, resp.body), st)
       ELSE Exit(<<req>>, Received(resp), <<[kind |-> "balances", data |-> resp.data]>>, <<>>, 0, st)

cmd_balances_retry(a, st, jwt, resp) ==
    LET uid == ChooseUid(a, st)
        req == Request("GET", <<"accounts", uid, "balances">>, NoParams)
    IN IF ~Truthy(uid) THEN _die(<<>>, NoResp, NoUidMsg, st)
       ELSE IF ~jwt THEN JwtDie(st)
       ELSE IF resp.status = 0 THEN NetDie(<<req>>, st)
       ELSE IF resp.status # 200
       THEN _die(<<req, req>>, Received(resp), Msg("Echec balances", resp.status, resp.body), st)
       ELSE Exit(<<req>>, Received(resp), <<[kind |-> "balances", data |-> resp.data]>>, <<>>, 0, st)

\* cmd_balances: GET /accounts/{uid}/balances
cmd_balances(a, st, jwt, resp) ==
    LET uid == ChooseUid(a, st)
        req == Request("GET", <<"accounts", uid, "balances">>, NoParams)
    IN IF ~Truthy(uid) THEN _die(<<>>, NoResp, NoUidMsg, st)
       ELSE IF ~jwt THEN JwtDie(st)
       ELSE IF resp.status = 0 THEN NetDie(<<req>>, st)
       ELSE IF resp.status # 200
       THEN _die(<<req>>, Received(resp), Msg("Echec balances", resp.status, resp.body), st)
       ELSE Exit(<<req>>, Received(resp), <<[kind |-> "balances", data |-> resp.data]>>, <<>>, 0, st)

----------------------------------------------------------------------------
(* Dates: datetime.strptime(s, "%Y-%m-%d").date(), date.isoformat(), date - date *)

TruthyD(s) == s.kind \notin {"absent", "empty"}

\* (request.args.get(k) or "").strip()
OrEmptyStrip(s) == IF s.kind \in {"absent", "blank"} THEN DEmpty ELSE s

IsLeap(y) == (y % 4 = 0 /\ y % 100 # 0) \/ y % 400 = 0

DaysInMonth(y, m) ==
    IF m = 2 THEN (IF IsLeap(y) THEN 29 ELSE 28)
    ELSE IF m \in {4, 6, 9, 11} THEN 30 ELSE 31

\* strptime raises ValueError unless the text is a calendar date
strptime_ok(s) ==
    /\ s.kind = "ymd"
    /\ s.y \in 1..9999
    /\ s.m \in 1..12
    /\ s.d \in 1..DaysInMonth(s.y, s.m)

Date(y, m, d) == [y |-> y, m |-> m, d |-> d]

strptime(s) == Date(s.y, s.m, s.d)

RECURSIVE DaysBeforeMonth(_, _)
DaysBeforeMonth(y, m) == IF m = 1 THEN 0 ELSE DaysBeforeMonth(y, m - 1) + DaysInMonth(y, m - 1)

\* date.toordinal(): days since 0001-01-01, which is day 1
toordinal(dt) ==
    LET y1 == dt.y - 1 IN
    y1 * 365 + (y1 \div 4) - (y1 \div 100) + (y1 \div 400) + DaysBeforeMonth(dt.y, dt.m) + dt.d

\* (a - b).days
DaysBetween(a, b) == toordinal(a) - toordinal(b)

\* date.isoformat(): zero-padded YYYY-MM-DD
isoformat(dt) == Ymd(dt.y, dt.m, dt.d, TRUE)

----------------------------------------------------------------------------
(* JSON values; an object keeps its keys in order, as a Python dict does *)

JS(v) == [t |-> "scalar", v |-> v]
JL(l) == [t |-> "list", l |-> l]
JD(pairs) == [t |-> "dict", d |-> pairs]

\* json.dumps(v): the value as text
Dumps(v) == [t |-> "text", of |-> v]

\* dict.update
Update(d, e) == [x \in (DOMAIN d) \cup (DOMAIN e) |-> IF x \in DOMAIN e THEN e[x] ELSE d[x]]

FlatKey(prefix, k) == IF prefix = "" THEN k ELSE prefix \o "." \o k

_flatten_shallow(obj, prefix) ==
    IF obj.t = "dict"
    THEN [k \in {FlatKey(prefix, obj.d[i][1]) : i \in 1..Len(obj.d)} |->
            LET i == CHOOSE j \in 1..Len(obj.d) : FlatKey(prefix, obj.d[j][1]) = k
                v == obj.d[i][2]
            IN IF v.t \in {"dict", "list"} THEN Dumps(v) ELSE v]
    ELSE Put(EmptyDict, IF prefix # "" THEN prefix ELSE "value", obj)

RECURSIVE _flatten(_, _), FlattenItems(_, _, _, _)
\* _flatten: one column per leaf; a nested object is flattened under "key.", a
\* list is kept as JSON text
_flatten(obj, prefix) ==
    IF obj.t = "dict"
    THEN FlattenItems(obj.d, 1, prefix, EmptyDict)
    ELSE Put(EmptyDict, IF prefix # "" THEN prefix ELSE "value", obj)

\* the loop of _flatten over obj.items(), from item i on
FlattenItems(pairs, i, prefix, out) ==
    IF i > Len(pairs) THEN out
    ELSE LET k == pairs[i][1]
             v == pairs[i][2]
             key == FlatKey(prefix, k)
             out2 == IF v.t = "dict" THEN Update(out, _flatten(v, key))
                     ELSE IF v.t = "list" THEN Put(out, key, Dumps(v))
                     ELSE Put(out, key, v)
         IN FlattenItems(pairs, i + 1, prefix, out2)

\* _transactions_to_csv: one flattened row per transaction under the union of
\* the rows' keys (the header; csv writes it sorted)
_transactions_to_csv(transactions) ==
    LET rows == [i \in 1..Len(transactions) |-> _flatten(transactions[i], "")]
        headers == UNION {DOMAIN rows[i] : i \in 1..Len(rows)}
    IN [headers |-> headers,
        rows |-> [i \in 1..Len(rows) |->
                    [k \in headers |-> IF k \in DOMAIN rows[i] THEN rows[i][k] ELSE JS("")]]]

----------------------------------------------------------------------------
(* The bank's transactions endpoint: a cursor over the pages it serves *)

max_pages == 20
TX_MAX_DAYS == 90

\* bound of the model: the bank serves at most max_pages + ExtraPages pages
ExtraPages == 1

MaxServerPages == max_pages + ExtraPages

\* a transaction as the bank sends it
Tx(n) == JD(<< <<"id", JS(n)>>, <<"amount", JD(<< <<"value", JS(n)>> >>)>> >>)

\* page p, followed by more pages or not: pages carry their items under
\* "transactions" (with a stale "items" beside it), under "items" alone, or carry none
PageBody(p, more) ==
    [transactions |-> IF p % 3 = 1 THEN <<Tx(10 * p + 1)>> ELSE <<>>,
     items |-> IF p % 3 = 1 THEN <<Tx(10 * p + 9)>>
               ELSE IF p % 3 = 2 THEN <<Tx(10 * p + 1), Tx(10 * p + 2)>> ELSE <<>>,
     continuation_key |-> IF more THEN p + 1 ELSE 0]

\* the page a request asks for
PageIndex(prm) == IF prm.continuation_key = 0 THEN 1 ELSE prm.continuation_key

NoPage == [transactions |-> <<>>, items |-> <<>>, continuation_key |-> 0]

PageResponses(prm) ==
    {[status |-> 200, body |-> "ok", page |-> PageBody(PageIndex(prm), more)] :
        more \in IF PageIndex(prm) < MaxServerPages THEN BOOLEAN ELSE {FALSE}}
    \cup {[status |-> r.status, body |-> r.body, page |-> NoPage] : r \in FailResponses \cup {NetFail}}

PageItems_transactions_only(page) == page.transactions

\* page.get("transactions") or page.get("items") or []
PageItems(page) ==
    IF page.transactions # <<>> THEN page.transactions
    ELSE IF page.items # <<>> THEN page.items
    ELSE <<>>

----------------------------------------------------------------------------
(* CLI: transactions *)

\* the loop goes on: another request follows
Continue(reqs, resp, acc, prm, n) ==
    [done |-> FALSE, requests |-> reqs, lastResp |-> resp, all_tx |-> acc, params |-> prm,
     pages |-> n]

\* cmd_transactions up to the loop: the account and --date-from are checked
cmd_transactions_begin(a, st) ==
    LET uid == ChooseUid(a, st) IN
    IF ~Truthy(uid) THEN _die(<<>>, NoResp, NoUidMsg, st)
    ELSE IF ~TruthyD(a.date_from)
    THEN _die(<<>>, NoResp, Msg("--date-from est requis", 0, None), st)
    ELSE IF ~strptime_ok(a.date_from)
    THEN _die(<<>>, NoResp, Msg("--date-from doit etre au format YYYY-MM-DD", 0, None), st)
    ELSE Continue(<<>>, NoResp, <<>>, Params(a.date_from, DAbsent, 0), 0)

cmd_transactions_turn_partial(a, st, jwt, reqs, acc, prm, n, resp) ==
    LET uid == ChooseUid(a, st)
        req == Request("GET", <<"accounts", uid, "transactions">>, prm)
        sent == Append(reqs, req)
    IN IF ~jwt THEN JwtDie(st)
       ELSE IF resp.status = 0 THEN NetDie(sent, st)
       ELSE IF resp.status # 200
       THEN Exit(sent, Received(resp),
                 <<[kind |-> "transactions", date_from |-> a.date_from,
                    total |-> Len(acc), items |-> acc]>>,
                 <<Msg("Echec transactions", resp.status, resp.body)>>, 1, st)
       ELSE LET acc2 == acc \o PageItems(resp.page)
                continuation_key == resp.page.continuation_key
            IN IF continuation_key # 0
               THEN Continue(sent, ReceivedPage(resp), acc2, Params(DAbsent, DAbsent, continuation_key), n + 1)
               ELSE Exit(sent, ReceivedPage(resp),
                         <<[kind |-> "transactions", date_from |-> a.date_from,
                            total |-> Len(acc2), items |-> acc2]>>, <<>>, 0, st)

\* cmd_transactions, one turn of its while loop: a request, its answer, and the
\* print that follows the last page
cmd_transactions_turn(a, st, jwt, reqs, acc, prm, n, resp) ==
    LET uid == ChooseUid(a, st)
        req == Request("GET", <<"accounts", uid, "transactions">>, prm)
        sent == Append(reqs, req)
    IN IF ~jwt THEN JwtDie(st)
       ELSE IF resp.status = 0 THEN NetDie(sent, st)
       ELSE IF resp.status # 200
       THEN _die(sent, Received(resp), Msg("Echec transactions", resp.status, resp.body), st)
       ELSE LET acc2 == acc \o PageItems(resp.page)
                continuation_key == resp.page.continuation_key
            IN IF continuation_key # 0
               THEN Continue(sent, ReceivedPage(resp), acc2, Params(DAbsent, DAbsent, continuation_key), n + 1)
               ELSE Exit(sent, ReceivedPage(resp),
                         <<[kind |-> "transactions", date_from |-> a.date_from,
                            total |-> Len(acc2), items |-> acc2]>>, <<>>, 0, st)

----------------------------------------------------------------------------
(* Web: the response of a route *)

NoMsg == Msg(None, 0, None)
NoCsv == [headers |-> {}, rows |-> <<>>]

\* the dict the transactions routes hand to the template / the CSV writer
Result(txs, date_from, date_to) ==
    [transactions |-> txs, count |-> Len(txs), date_from |-> date_from, date_to |-> date_to]

NoResult == Result(<<>>, DAbsent, DAbsent)

\* redirect(target), with the messages flashed before it
Redirect(target, flashes) ==
    [kind |-> "redirect", target |-> target, result |-> NoResult, error |-> NoMsg,
     flashes |-> flashes, csv |-> NoCsv]

\* render_template(template, ...)
Render(template, result, error, flashes) ==
    [kind |-> "render", target |-> template, result |-> result, error |-> error,
     flashes |-> flashes, csv |-> NoCsv]

\* app.response_class(csv_text, mimetype="text/csv")
CsvResponse(result) ==
    [kind |-> "csv", target |-> "attachment", result |-> result, error |-> NoMsg,
     flashes |-> <<>>, csv |-> _transactions_to_csv(result.transactions)]

\* an exception no handler catches: Flask answers 500
Error500 ==
    [kind |-> "error500", target |-> None, result |-> NoResult, error |-> NoMsg,
     flashes |-> <<>>, csv |-> NoCsv]

NoWebResp ==
    [kind |-> "none", target |-> None, result |-> NoResult, error |-> NoMsg,
     flashes |-> <<>>, csv |-> NoCsv]

\* the route ran to its end
WebDone(reqs, resp, wr, sess, ws) ==
    [done |-> TRUE, requests |-> reqs, lastResp |-> resp, webResp |-> wr,
     session |-> sess, webState |-> ws]

\* _ensure_session_persistence (before_request): the session is made permanent and
\* what it lacks of accounts / session_id is restored from the state file
_ensure_session_persistence(sess, ws) ==
    LET s0 == Put(sess, "_permanent", "True")
        lacks == GetAccounts(s0) = <<>> \/ ~Truthy(GetStr(s0, "session_id"))
        s1 == IF lacks /\ GetAccounts(s0) = <<>> /\ GetAccounts(ws) # <<>>
              THEN Put(s0, "accounts", GetAccounts(ws)) ELSE s0
        s2 == IF lacks /\ ~Truthy(GetStr(s1, "session_id")) /\ Truthy(GetStr(ws, "session_id"))
              THEN Put(s1, "session_id", GetStr(ws, "session_id")) ELSE s1
    IN s2

\* index: GET /
index(sess, ws) == WebDone(<<>>, NoResp, Render("index.html", NoResult, NoMsg, <<>>), sess, ws)

\* start_consent: POST /start
start_consent(a, sess, ws, jwt, resp, token) ==
    LET bank_name == Strip(a.bank_name)
        sess2 == Put(sess, "oauth_state", token)
        req == Request("POST", <<"auth">>, NoParams)
    IN IF ~Truthy(bank_name)
       THEN WebDone(<<>>, NoResp, Redirect("index", <<Msg("Veuillez saisir le nom de la banque", 0, None)>>), sess, ws)
       ELSE IF ~jwt
       THEN WebDone(<<>>, NoResp, Redirect("index", <<Msg("Erreur locale", 0, None)>>), sess2, ws)
       ELSE IF resp.status = 0
       THEN WebDone(<<req>>, NoResp, Redirect("index", <<Msg("Erreur locale", 0, None)>>), sess2, ws)
       ELSE IF resp.status # 200
       THEN WebDone(<<req>>, Received(resp),
                    Redirect("index", <<Msg("Echec /auth", resp.status, resp.body)>>), sess2, ws)
       ELSE IF ~Truthy(resp.url)
       THEN WebDone(<<req>>, Received(resp),
                    Redirect("index", <<Msg("Reponse /auth sans url", 0, None)>>), sess2, ws)
       ELSE WebDone(<<req>>, Received(resp), Redirect(resp.url, <<>>), sess2, ws)

\* callback: GET /callback?code=..&state=..
callback(a, sess, ws, jwt, resp, now) ==
    LET expected_state == GetStr(sess, "oauth_state")
        req == Request("POST", <<"sessions">>, NoParams)
    IN IF ~Truthy(a.code)
       THEN WebDone(<<>>, NoResp, Redirect("index", <<Msg("Parametre code manquant", 0, None)>>), sess, ws)
       ELSE IF Truthy(expected_state) /\ Truthy(a.state) /\ a.state # expected_state
       THEN WebDone(<<>>, NoResp, Redirect("index", <<Msg("State de retour invalide", 0, None)>>), sess, ws)
       ELSE IF ~jwt THEN WebDone(<<>>, NoResp, Error500, sess, ws)
       ELSE IF resp.status = 0 THEN WebDone(<<req>>, NoResp, Error500, sess, ws)
       ELSE IF resp.status # 200
       THEN WebDone(<<req>>, Received(resp),
                    Redirect("index", <<Msg("Echec /sessions", resp.status, resp.body)>>), sess, ws)
       ELSE WebDone(<<req>>, Received(resp),
                    Redirect("accounts", <<Msg("Consentement valide et comptes charges", 0, None)>>),
                    Put(Put(sess, "session_id", resp.session_id), "accounts", resp.accounts),
                    Put(Put(Put(EmptyDict, "session_id", resp.session_id),
                            "accounts", resp.accounts), "updated_at", now))

\* accounts: GET /accounts
accounts(sess, ws) ==
    IF GetAccounts(sess) = <<>>
    THEN WebDone(<<>>, NoResp, Redirect("index", <<Msg("Aucun compte en session", 0, None)>>), sess, ws)
    ELSE WebDone(<<>>, NoResp, Render("accounts.html", NoResult, NoMsg, <<>>), sess, ws)

\* balances: GET /balances/<uid>
balances(a, sess, ws, jwt, resp) ==
    LET req == Request("GET", <<"accounts", a.uid, "balances">>, NoParams) IN
    IF ~jwt THEN WebDone(<<>>, NoResp, Error500, sess, ws)
    ELSE IF resp.status = 0 THEN WebDone(<<req>>, NoResp, Error500, sess, ws)
    ELSE IF resp.status # 200
    THEN WebDone(<<req>>, Received(resp),
                 Redirect("accounts", <<Msg("Echec balances", resp.status, resp.body)>>), sess, ws)
    ELSE WebDone(<<req>>, Received(resp), Render("balances.html", NoResult, NoMsg, <<>>), sess, ws)

----------------------------------------------------------------------------
(* Web: transactions *)

\* the checks of the try block without the limit on the span
DateError_no_span(date_from, date_to, today) ==
    IF ~strptime_ok(date_from) THEN "date_from: ValueError"
    ELSE IF TruthyD(date_to) /\ ~strptime_ok(date_to) THEN "date_to: ValueError"
    ELSE LET df == strptime(date_from)
             dt == IF TruthyD(date_to) THEN strptime(date_to) ELSE today
         IN IF toordinal(df) > toordinal(dt) THEN "La date de debut est apres la date de fin"
            ELSE ""

\* what the try block of the two routes checks before it fetches: "" when the
\* dates pass, else the ValueError
DateError(date_from, date_to, today) ==
    IF ~strptime_ok(date_from) THEN "date_from: ValueError"
    ELSE IF TruthyD(date_to) /\ ~strptime_ok(date_to) THEN "date_to: ValueError"
    ELSE LET df == strptime(date_from)
             dt == IF TruthyD(date_to) THEN strptime(date_to) ELSE today
         IN IF toordinal(df) > toordinal(dt) THEN "La date de debut est apres la date de fin"
            ELSE IF DaysBetween(dt, df) > TX_MAX_DAYS THEN "Plage trop large"
            ELSE ""

\* dt of the routes: the parsed date_to, or today in UTC
DateTo(date_to, today) == IF TruthyD(date_to) THEN strptime(date_to) ELSE today

\* the date_from / date_to the route passes to _collect_transactions
CollectFrom(route, a) ==
    LET date_from == OrEmptyStrip(a.date_from) IN
    IF route = "web_transactions_csv" THEN isoformat(strptime(date_from)) ELSE date_from

CollectTo(route, a) == isoformat(DateTo(OrEmptyStrip(a.date_to), a.today))

\* transactions / transactions_csv up to the loop of _collect_transactions
web_transactions_begin(route, a, sess, ws) ==
    LET date_from == OrEmptyStrip(a.date_from)
        date_to == OrEmptyStrip(a.date_to)
        err == DateError(date_from, date_to, a.today)
        shown == Result(<<>>, date_from, date_to)
    IN IF ~TruthyD(date_from)
       THEN IF route = "web_transactions_csv"
            THEN WebDone(<<>>, NoResp,
                         Redirect("transactions", <<Msg("Veuillez preciser au moins date_from", 0, None)>>),
                         sess, ws)
            ELSE WebDone(<<>>, NoResp, Render("transactions.html", shown, NoMsg, <<>>), sess, ws)
       ELSE IF err # ""
       THEN IF route = "web_transactions_csv"
            THEN WebDone(<<>>, NoResp, Redirect("transactions", <<Msg(err, 0, None)>>), sess, ws)
            ELSE WebDone(<<>>, NoResp, Render("transactions.html", shown, Msg(err, 0, None), <<>>), sess, ws)
       ELSE Continue(<<>>, NoResp, <<>>, Params(CollectFrom(route, a), CollectTo(route, a), 0), 0)

\* _collect_transactions raised
Raise(reqs, resp, msg) ==
    [done |-> TRUE, raised |-> TRUE, requests |-> reqs, lastResp |-> resp, error |-> msg,
     result |-> NoResult]

\* _collect_transactions returned
Return(reqs, resp, result) ==
    [done |-> TRUE, raised |-> FALSE, requests |-> reqs, lastResp |-> resp, error |-> NoMsg,
     result |-> result]

\* the loop of _collect_transactions without the limit on the pages
_collect_transactions_turn_uncapped(uid, date_from, date_to, jwt, reqs, acc, prm, n, resp) ==
    LET req == Request("GET", <<"accounts", uid, "transactions">>, prm)
        sent == Append(reqs, req)
    IN IF ~jwt THEN Raise(reqs, NoResp, Msg("jwt", 0, None))
       ELSE IF resp.status = 0 THEN Raise(sent, NoResp, Msg("network", 0, None))
       ELSE IF resp.status # 200
       THEN Raise(sent, Received(resp), Msg("Echec transactions", resp.status, resp.body))
       ELSE LET acc2 == acc \o PageItems(resp.page)
                cont == resp.page.continuation_key
                n2 == n + 1
            IN IF cont # 0
               THEN Continue(sent, ReceivedPage(resp), acc2, Params(DAbsent, DAbsent, cont), n2)
               ELSE Return(sent, ReceivedPage(resp), Result(acc2, date_from, date_to))

\* _collect_transactions, one turn of its while loop
_collect_transactions_turn(uid, date_from, date_to, jwt, reqs, acc, prm, n, resp) ==
    LET req == Request("GET", <<"accounts", uid, "transactions">>, prm)
        sent == Append(reqs, req)
    IN IF ~jwt THEN Raise(reqs, NoResp, Msg("jwt", 0, None))
       ELSE IF resp.status = 0 THEN Raise(sent, NoResp, Msg("network", 0, None))
       ELSE IF resp.status # 200
       THEN Raise(sent, Received(resp), Msg("Echec transactions", resp.status, resp.body))
       ELSE LET acc2 == acc \o PageItems(resp.page)
                cont == resp.page.continuation_key
                n2 == n + 1
            IN IF cont # 0 /\ n2 < max_pages
               THEN Continue(sent, ReceivedPage(resp), acc2, Params(DAbsent, DAbsent, cont), n2)
               ELSE Return(sent, ReceivedPage(resp), Result(acc2, date_from, date_to))

\* transactions / transactions_csv: a turn of the fetch, and what the route
\* answers once _collect_transactions has returned or raised
web_transactions_turn(route, a, sess, ws, jwt, reqs, acc, prm, n, resp) ==
    LET r == _collect_transactions_turn(a.uid, CollectFrom(route, a), CollectTo(route, a),
                                        jwt, reqs, acc, prm, n, resp)
        shown == Result(<<>>, OrEmptyStrip(a.date_from), OrEmptyStrip(a.date_to))
    IN IF ~r.done THEN r
       ELSE IF r.raised
       THEN IF route = "web_transactions_csv"
            THEN WebDone(r.requests, r.lastResp, Redirect("transactions", <<r.error>>), sess, ws)
            ELSE WebDone(r.requests, r.lastResp,
                         Render("transactions.html", shown, r.error, <<>>), sess, ws)
       ELSE IF route = "web_transactions_csv"
            THEN WebDone(r.requests, r.lastResp, CsvResponse(r.result), sess, ws)
            ELSE WebDone(r.requests, r.lastResp,
                         Render("transactions.html", r.result, NoMsg, <<>>), sess, ws)

----------------------------------------------------------------------------
(* Inputs the actions draw *)

\* today in UTC (datetime.now(timezone.utc).date())
Todays == {Date(2024, 3, 31)}

NoArgs ==
    [account_uid |-> None, date_from |-> DAbsent, date_to |-> DAbsent, today |-> Date(2024, 3, 31),
     code |-> None, state |-> None, bank_name |-> None, uid |-> None]

\* --account-uid: not given, empty, a uid the bank knows, a uid it does not
CliUidArgs == {None, "", "u1", "u2", "u3"}

CliDateFrom == {DEmpty, DGarbage, Ymd(2024, 2, 30, TRUE), Ymd(2024, 1, 1, TRUE)}

WebDateFrom ==
    {DAbsent, DBlank, DGarbage, Ymd(2024, 2, 30, TRUE), Ymd(2024, 1, 1, TRUE),
     Ymd(2024, 1, 1, FALSE), Ymd(2024, 4, 1, TRUE)}

WebDateTo == {DAbsent, DGarbage, Ymd(2024, 1, 1, TRUE), Ymd(2024, 3, 31, TRUE), Ymd(2024, 4, 1, TRUE)}

\* secrets.token_urlsafe(16)
OauthTokens == {"st1"}

CallbackStates == {None, "", "st1", "st2"}
CallbackCodes == {None, "c1"}
BankNames == {"", " ", "Bank"}
WebUids == {"u1"}
WebAccountLists == {<<>>, <<Account("u1")>>}

WebSessionsResponses == {r \in SessionsResponses : r.accounts \in WebAccountLists}

CliOps ==
    {"cli_auth_url", "cli_exchange_code", "cli_list_accounts", "cli_set_default_account",
     "cli_balances", "cli_transactions"}

WebOps ==
    {"web_index", "web_start", "web_callback", "web_accounts", "web_balances",
     "web_transactions", "web_transactions_csv"}

----------------------------------------------------------------------------
(* The web module's top-level statements, executed in order when            *)
(* enable_budget_web.py is imported or run.  A statement binds names in the *)
(* module's globals; the names it evaluates (a decorator's expression and   *)
(* the annotations of a def, the right-hand side of an assignment) must be  *)
(* bound by then, the names inside a function's body need not.              *)

Import(line, module, names) ==
    [line |-> line, kind |-> "import", module |-> module, binds |-> names, uses |-> {},
     int_env |-> None, register |-> None]

\* int_env: the environment variable whose value the statement hands to int()
Assign(line, names, uses, int_env) ==
    [line |-> line, kind |-> "assign", module |-> None, binds |-> names, uses |-> uses,
     int_env |-> int_env, register |-> None]

\* register: "before_request" / "route" for @app.before_request / @app.route,
\* @app.get, @app.post
Def(line, name, uses, register) ==
    [line |-> line, kind |-> "def", module |-> None, binds |-> {name}, uses |-> uses,
     int_env |-> None, register |-> register]

\* if __name__ == "__main__": main(), which ends in app.run(...)
Run(line, uses) ==
    [line |-> line, kind |-> "run", module |-> None, binds |-> {}, uses |-> uses,
     int_env |-> None, register |-> None]

WebModule ==
    << Import(4, "json", {"json"}),
       Import(5, "os", {"os"}),
       Import(6, "time", {"time"}),
       Import(7, "datetime", {"datetime", "timezone", "timedelta"}),
       Import(8, "typing", {"Any", "Dict", "Optional"}),
       Import(10, "flask", {"Flask", "redirect", "render_template", "request", "session",
                            "url_for", "flash"}),
       Import(11, "requests", {"requests"}),
       Import(12, "jwt", {"jwt"}),
       Import(13, "urllib.parse", {"urlparse"}),
       Import(14, "argparse", {"argparse"}),
       Import(15, "secrets", {"secrets"}),
       Import(16, "csv", {"csv"}),
       Import(17, "io", {"io"}),
       Assign(20, {"APP_ID"}, {"os"}, None),
       Assign(21, {"PRIVATE_KEY_PATH"}, {"os"}, None),
       Assign(22, {"PRIVATE_KEY_INLINE"}, {"os"}, None),
       Assign(23, {"API_BASE"}, {"os"}, None),
       Assign(24, {"WEB_DEFAULT_REDIRECT_URL"}, {"os"}, None),
       Assign(25, {"TX_MAX_DAYS"}, {"os"}, "WEB_TX_MAX_DAYS"),
       Assign(26, {"ACCESS_JSON"}, {"os"}, None),
       Assign(27, {"WEB_STATE_FILE"}, {"os"}, None),
       Assign(28, {"WEB_SESSION_DAYS"}, {"os"}, "WEB_SESSION_DAYS"),
       Def(31, "_audience_from_api_base", {}, None),
       Def(39, "_normalize_path", {}, None),
       Def(47, "_load_private_key", {}, None),
       Def(64, "_get_access", {"Dict", "Any"}, None),
       Def(82, "_save_web_state", {"Dict", "Any"}, None),
       Def(91, "_load_web_state", {"Dict", "Any"}, None),
       Def(101, "_ensure_session_persistence", {"app"}, "before_request"),
       Def(114, "_build_jwt", {}, None),
       Def(138, "_headers", {"Dict"}, None),
       Def(151, "_request", {"Optional", "Dict", "Any", "requests"}, None),
       Assign(156, {"app"}, {"Flask"}, None),
       Assign(157, {}, {"app", "os"}, None),
       Assign(158, {}, {"app", "timedelta", "WEB_SESSION_DAYS"}, None),
       Assign(159, {}, {"app"}, None),
       Assign(160, {}, {"app"}, None),
       Def(163, "index", {"app"}, "route"),
       Def(170, "start_consent", {"app"}, "route"),
       Def(213, "callback", {"app"}, "route"),
       Def(246, "accounts", {"app"}, "route"),
       Def(255, "balances", {"app"}, "route"),
       Def(270, "_collect_transactions", {"Optional", "Dict", "Any"}, None),
       Def(298, "_flatten", {"Any", "Dict"}, None),
       Def(316, "_transactions_to_csv", {"Any"}, None),
       Def(329, "transactions", {"app"}, "route"),
       Def(359, "transactions_csv", {"app"}, "route"),
       Def(394, "_parse_args", {"argparse"}, None),
       Def(403, "main", {}, None),
       Run(411, {"main"}) >>

\* the route handlers the module defines
WebRoutes ==
    {"index", "start_consent", "callback", "accounts", "balances", "transactions",
     "transactions_csv"}

\* the imports that are not of the standard library: installed or not
ThirdParty == {"flask", "requests", "jwt"}

\* WEB_TX_MAX_DAYS / WEB_SESSION_DAYS in the environment: unset, a number, other text
EnvValues == {None, "30", "abc"}

IntParses(v) == v \in {None, "30"}

\* the exception executing stmt raises, None when it raises none
Raises(stmt, ld) ==
    IF stmt.kind = "import" /\ stmt.module \in ThirdParty /\ stmt.module \notin ld.installed
    THEN "ModuleNotFoundError"
    ELSE IF ~(stmt.uses \subseteq ld.globals) THEN "NameError"
    ELSE IF stmt.int_env # None /\ ~IntParses(ld.environ[stmt.int_env]) THEN "ValueError"
    ELSE None

\* the load once stmt has been executed
Executed(stmt, ld) ==
    [ld EXCEPT !.pos = @ + 1,
               !.globals = @ \cup stmt.binds,
               !.before_request_funcs =
                    IF stmt.register = "before_request" THEN @ \cup stmt.binds ELSE @,
               !.view_functions = IF stmt.register = "route" THEN @ \cup stmt.binds ELSE @,
               !.serving = @ \/ stmt.kind = "run"]

\* nothing of the module executed yet
NotLoaded ==
    [pos |-> 1, globals |-> {}, before_request_funcs |-> {}, view_functions |-> {},
     serving |-> FALSE, raised |-> None,
     environ |-> [WEB_TX_MAX_DAYS |-> None, WEB_SESSION_DAYS |-> None],
     installed |-> ThirdParty]

----------------------------------------------------------------------------
(* Initial state: nothing stored, nothing run *)

Init ==
    /\ jwtOK \in BOOLEAN
    /\ localState = EmptyDict
    /\ session = EmptyDict
    /\ webState = EmptyDict
    /\ op = "none"
    /\ args = NoArgs
    /\ pc = "idle"
    /\ requests = <<>>
    /\ lastResp = NoResp
    /\ stdout = <<>>
    /\ stderr = <<>>
    /\ exitCode = 0
    /\ webResp = NoWebResp
    /\ all_tx = <<>>
    /\ params = NoParams
    /\ pages = 0
    /\ flat_obj = JD(<<>>)
    /\ flat_out = EmptyDict
    /\ load = NotLoaded

\* a CLI command ran to its exit
CliEnds(name, a, r) ==
    /\ op' = name
    /\ args' = a
    /\ pc' = "done"
    /\ requests' = r.requests
    /\ lastResp' = r.lastResp
    /\ stdout' = r.stdout
    /\ stderr' = r.stderr
    /\ exitCode' = r.exitCode
    /\ localState' = r.localState
    /\ webResp' = NoWebResp
    /\ all_tx' = <<>>
    /\ params' = NoParams
    /\ pages' = 0
    /\ UNCHANGED <<jwtOK, session, webState, flat_obj, flat_out, load>>

\* a web route answered
WebEnds(name, a, r) ==
    /\ op' = name
    /\ args' = a
    /\ pc' = "done"
    /\ requests' = r.requests
    /\ lastResp' = r.lastResp
    /\ webResp' = r.webResp
    /\ session' = r.session
    /\ webState' = r.webState
    /\ stdout' = <<>>
    /\ stderr' = <<>>
    /\ exitCode' = 0
    /\ all_tx' = <<>>
    /\ params' = NoParams
    /\ pages' = 0
    /\ UNCHANGED <<jwtOK, localState, flat_obj, flat_out, load>>

\* the fetch loop starts or goes on
Loops(name, a, r, sess) ==
    /\ op' = name
    /\ args' = a
    /\ pc' = "fetching"
    /\ requests' = r.requests
    /\ lastResp' = r.lastResp
    /\ all_tx' = r.all_tx
    /\ params' = r.params
    /\ pages' = r.pages
    /\ session' = sess
    /\ stdout' = <<>>
    /\ stderr' = <<>>
    /\ exitCode' = 0
    /\ webResp' = NoWebResp
    /\ UNCHANGED <<jwtOK, localState, webState, flat_obj, flat_out, load>>

----------------------------------------------------------------------------
(* CLI commands: main() dispatches args.func(args) *)

CliAuthUrl ==
    /\ pc = "idle"
    /\ \E resp \in AuthResponses :
        CliEnds("cli_auth_url", NoArgs, cmd_auth_url(NoArgs, localState, jwtOK, resp))

CliExchangeCode ==
    /\ pc = "idle"
    /\ \E resp \in SessionsResponses, now \in Timestamps :
        CliEnds("cli_exchange_code", [NoArgs EXCEPT !.code = "c1"],
                cmd_exchange_code([NoArgs EXCEPT !.code = "c1"], localState, jwtOK, resp, now))

CliListAccounts ==
    /\ pc = "idle"
    /\ CliEnds("cli_list_accounts", NoArgs, cmd_list_accounts(NoArgs, localState))

CliSetDefaultAccount ==
    /\ pc = "idle"
    /\ \E uid \in CliUidArgs \ {None} :
        LET a == [NoArgs EXCEPT !.account_uid = uid] IN
        CliEnds("cli_set_default_account", a, cmd_set_default_account(a, localState))

CliBalances ==
    /\ pc = "idle"
    /\ \E uid \in CliUidArgs, resp \in BalancesResponses :
        LET a == [NoArgs EXCEPT !.account_uid = uid] IN
        CliEnds("cli_balances", a, cmd_balances(a, localState, jwtOK, resp))

CliTransactions ==
    /\ pc = "idle"
    /\ \E uid \in CliUidArgs, date_from \in CliDateFrom :
        LET a == [NoArgs EXCEPT !.account_uid = uid, !.date_from = date_from]
            r == cmd_transactions_begin(a, localState)
        IN IF r.done THEN CliEnds("cli_transactions", a, r)
           ELSE Loops("cli_transactions", a, r, session)

CliTransactionsTurn ==
    /\ pc = "fetching"
    /\ op = "cli_transactions"
    /\ \E resp \in PageResponses(params) :
        LET r == cmd_transactions_turn(args, localState, jwtOK, requests, all_tx, params, pages, resp)
        IN IF r.done THEN CliEnds(op, args, r)
           ELSE Loops(op, args, r, session)

----------------------------------------------------------------------------
(* Web routes; the before_request hook runs first *)

Hooked == _ensure_session_persistence(session, webState)

WebIndex ==
    /\ pc = "idle"
    /\ WebEnds("web_index", NoArgs, index(Hooked, webState))

WebStart ==
    /\ pc = "idle"
    /\ \E bank \in BankNames, resp \in AuthResponses, token \in OauthTokens :
        LET a == [NoArgs EXCEPT !.bank_name = bank] IN
        WebEnds("web_start", a, start_consent(a, Hooked, webState, jwtOK, resp, token))

WebCallback ==
    /\ pc = "idle"
    /\ \E code \in CallbackCodes, state \in CallbackStates,
          resp \in WebSessionsResponses, now \in Timestamps :
        LET a == [NoArgs EXCEPT !.code = code, !.state = state] IN
        WebEnds("web_callback", a, callback(a, Hooked, webState, jwtOK, resp, now))

WebAccounts ==
    /\ pc = "idle"
    /\ WebEnds("web_accounts", NoArgs, accounts(Hooked, webState))

WebBalances ==
    /\ pc = "idle"
    /\ \E uid \in WebUids, resp \in BalancesResponses :
        LET a == [NoArgs EXCEPT !.uid = uid] IN
        WebEnds("web_balances", a, balances(a, Hooked, webState, jwtOK, resp))

WebTransactions ==
    /\ pc = "idle"
    /\ \E route \in {"web_transactions", "web_transactions_csv"}, uid \in WebUids,
          date_from \in WebDateFrom, date_to \in WebDateTo, today \in Todays :
        LET a == [NoArgs EXCEPT !.uid = uid, !.date_from = date_from,
                                !.date_to = date_to, !.today = today]
            r == web_transactions_begin(route, a, Hooked, webState)
        IN IF r.done THEN WebEnds(route, a, r)
           ELSE Loops(route, a, r, Hooked)

WebTransactionsTurn ==
    /\ pc = "fetching"
    /\ op \in {"web_transactions", "web_transactions_csv"}
    /\ \E resp \in PageResponses(params) :
        LET r == web_transactions_turn(op, args, session, webState, jwtOK,
                                       requests, all_tx, params, pages, resp)
        IN IF r.done THEN WebEnds(op, args, r)
           ELSE Loops(op, args, r, session)

\* the process has exited / the response is sent: the next invocation starts
\* from the stored state alone
Finished ==
    /\ pc = "done"
    /\ op' = "none"
    /\ args' = NoArgs
    /\ pc' = "idle"
    /\ requests' = <<>>
    /\ lastResp' = NoResp
    /\ stdout' = <<>>
    /\ stderr' = <<>>
    /\ exitCode' = 0
    /\ webResp' = NoWebResp
    /\ UNCHANGED <<jwtOK, localState, session, webState, all_tx, params, pages,
                   flat_obj, flat_out, load>>

Next ==
    \/ CliAuthUrl
    \/ CliExchangeCode
    \/ CliListAccounts
    \/ CliSetDefaultAccount
    \/ CliBalances
    \/ CliTransactions
    \/ CliTransactionsTurn
    \/ WebIndex
    \/ WebStart
    \/ WebCallback
    \/ WebAccounts
    \/ WebBalances
    \/ WebTransactions
    \/ WebTransactionsTurn
    \/ Finished

Spec == Init /\ [][Next]_vars

----------------------------------------------------------------------------
(* _flatten on its own, over nested JSON values *)

FlatKeys == {"a", "b", "a.b"}

\* values that are not objects: a scalar, a list (here of an object)
FlatLeaves == {JS(1), JL(<<JD(<< <<"a", JS(1)>> >>)>>)}

\* the objects of at most two keys whose values are drawn from vals
ObjectsOver(vals) ==
    {JD(<<>>)}
    \cup {JD(<< <<k, v>> >>) : k \in FlatKeys, v \in vals}
    \cup {JD(<< <<k[1], v[1]>>, <<k[2], v[2]>> >>) :
            k \in {kk \in FlatKeys \X FlatKeys : kk[1] # kk[2]}, v \in vals \X vals}

FlatObjects1 == ObjectsOver(FlatLeaves)
FlatObjects2 == ObjectsOver(FlatLeaves \cup FlatObjects1)
FlatObjects3 == {JD(<< <<"a", v>> >>) : v \in FlatObjects2}

FlattenInputs == FlatLeaves \cup FlatObjects2 \cup FlatObjects3

InitFlatten ==
    /\ jwtOK = TRUE
    /\ localState = EmptyDict
    /\ session = EmptyDict
    /\ webState = EmptyDict
    /\ op = "none"
    /\ args = NoArgs
    /\ pc = "idle"
    /\ requests = <<>>
    /\ lastResp = NoResp
    /\ stdout = <<>>
    /\ stderr = <<>>
    /\ exitCode = 0
    /\ webResp = NoWebResp
    /\ all_tx = <<>>
    /\ params = NoParams
    /\ pages = 0
    /\ flat_obj \in FlattenInputs
    /\ flat_out = EmptyDict
    /\ load = NotLoaded

\* rows = [_flatten(t) for t in transactions], one t
Flatten ==
    /\ pc = "idle"
    /\ op' = "flatten"
    /\ pc' = "done"
    /\ flat_out' = _flatten(flat_obj, "")
    /\ UNCHANGED <<jwtOK, localState, session, webState, args, requests, lastResp, stdout,
                   stderr, exitCode, webResp, all_tx, params, pages, flat_obj, load>>

NextFlatten == Flatten

SpecFlatten == InitFlatten /\ [][NextFlatten]_vars

----------------------------------------------------------------------------
(* The load of the web module *)

handlerVars ==
    <<jwtOK, localState, session, webState, op, args, pc, requests, lastResp, stdout,
      stderr, exitCode, webResp, all_tx, params, pages, flat_obj, flat_out>>

InitLoad ==
    /\ jwtOK = TRUE
    /\ localState = EmptyDict
    /\ session = EmptyDict
    /\ webState = EmptyDict
    /\ op = "none"
    /\ args = NoArgs
    /\ pc = "idle"
    /\ requests = <<>>
    /\ lastResp = NoResp
    /\ stdout = <<>>
    /\ stderr = <<>>
    /\ exitCode = 0
    /\ webResp = NoWebResp
    /\ all_tx = <<>>
    /\ params = NoParams
    /\ pages = 0
    /\ flat_obj = JD(<<>>)
    /\ flat_out = EmptyDict
    /\ \E tx \in EnvValues, days \in EnvValues, inst \in SUBSET ThirdParty :
        load = [NotLoaded EXCEPT !.environ = [WEB_TX_MAX_DAYS |-> tx, WEB_SESSION_DAYS |-> days],
                                 !.installed = inst]

\* the next top-level statement is executed
LoadStep ==
    /\ load.raised = None
    /\ load.pos <= Len(WebModule)
    /\ Raises(WebModule[load.pos], load) = None
    /\ load' = Executed(WebModule[load.pos], load)
    /\ UNCHANGED handlerVars

\* the next top-level statement raises: the load ends there
LoadRaises ==
    /\ load.raised = None
    /\ load.pos <= Len(WebModule)
    /\ Raises(WebModule[load.pos], load) # None
    /\ load' = [load EXCEPT !.raised = Raises(WebModule[load.pos], load)]
    /\ UNCHANGED handlerVars

NextLoad ==
    \/ LoadStep
    \/ LoadRaises

SpecLoad == InitLoad /\ [][NextLoad]_vars

----------------------------------------------------------------------------
(* What the properties below speak of *)

FetchOps == {"cli_transactions", "web_transactions", "web_transactions_csv"}
WebFetchOps == {"web_transactions", "web_transactions_csv"}

\* a response arrived and its status is not 200
NonOk == lastResp.status \notin {0, 200}

\* the message reports the status and the body of the last response
Reports(msg) == msg.status = lastResp.status /\ msg.body = lastResp.body

InSeq(P(_), seq) == \E i \in 1..Len(seq) : P(seq[i])

\* the fetch came to its normal end: the CLI printed, the route got its result
FetchSucceeded ==
    /\ pc = "done"
    /\ \/ op = "cli_transactions" /\ exitCode = 0
       \/ op \in WebFetchOps /\ lastResp.status = 200

\* the transactions the finished fetch printed or returned
FetchResult ==
    IF op = "cli_transactions" THEN stdout[1].items ELSE webResp.result.transactions

\* the items page p carries
ItemsServed(p) ==
    IF p % 3 = 1 THEN <<Tx(10 * p + 1)>>
    ELSE IF p % 3 = 2 THEN <<Tx(10 * p + 1), Tx(10 * p + 2)>>
    ELSE <<>>

RECURSIVE ItemsUpTo(_)
\* the items of pages 1..k, in order
ItemsUpTo(k) == IF k = 0 THEN <<>> ELSE ItemsUpTo(k - 1) \o ItemsServed(k)

\* request i asks for page i: the first by the dates, the others by the cursor
\* the page before returned
InCursorOrder ==
    \A i \in 1..Len(requests) :
        requests[i].params.continuation_key = (IF i = 1 THEN 0 ELSE i)

----------------------------------------------------------------------------
(* C1 *)

\* C1: in a transactions fetch (CLI and web), a page response whose status is
\* not 200 ends the fetch: the invocation is over with that response as its
\* last, and nothing accumulated from the earlier pages is printed (the CLI
\* exits 1 through _die, stdout empty) or returned (the web helper raised: the
\* route shows no transactions, no CSV, and reports the error).
C1_NonOkEndsFetch ==
    (op \in FetchOps /\ NonOk) =>
        /\ pc = "done"
        /\ all_tx = <<>>
        /\ op = "cli_transactions" =>
            /\ exitCode = 1
            /\ stdout = <<>>
            /\ InSeq(Reports, stderr)
        /\ op \in WebFetchOps =>
            /\ webResp.kind # "csv"
            /\ webResp.result.transactions = <<>>
            /\ webResp.csv = NoCsv
            /\ Reports(webResp.error) \/ InSeq(Reports, webResp.flashes)

\* C1 witness: a CLI fetch that had read two pages when the third answered 500
C1_Witness ==
    /\ op = "cli_transactions"
    /\ pc = "done"
    /\ lastResp.status = 500
    /\ Len(requests) = 3

----------------------------------------------------------------------------
(* C2 *)

\* C2 as stated: a fetch whose pages all answered 200 ends on a page without
\* continuation_key, and its result is the concatenation of the items of
\* every page up to that one, in the CLI and in the web app alike.
C2_DrainsCursor_Original ==
    FetchSucceeded =>
        /\ lastResp.continuation_key = 0
        /\ InCursorOrder
        /\ FetchResult = ItemsUpTo(Len(requests))

\* C2 amended: a fetch whose pages all answered 200 returns the in-order
\* concatenation of the items of every page it read, from the first request
\* on; the CLI reads up to and including the first page without
\* continuation_key, the web app up to that page or the max_pages-th page,
\* whichever comes first.
C2_DrainsCursor ==
    /\ (pc = "fetching" /\ lastResp.status = 200) =>
        /\ lastResp.continuation_key # 0
        /\ all_tx = ItemsUpTo(Len(requests))
    /\ (op \in WebFetchOps) => Len(requests) <= max_pages
    /\ FetchSucceeded =>
        /\ InCursorOrder
        /\ FetchResult = ItemsUpTo(Len(requests))
        /\ \/ lastResp.continuation_key = 0
           \/ op \in WebFetchOps /\ Len(requests) = max_pages

\* C2 witness: the CLI drained a cursor of more than max_pages pages
C2_Witness ==
    /\ op = "cli_transactions"
    /\ FetchSucceeded
    /\ Len(requests) > max_pages
    /\ Len(FetchResult) > max_pages

----------------------------------------------------------------------------
(* C3 *)

\* C3: in the CLI, a response whose status is not 200 ends the command with a
\* non-zero exit status, the status code and the body reported on stderr, and
\* nothing on stdout.
C3_CliNonOkExits ==
    (op \in CliOps /\ NonOk) =>
        /\ pc = "done"
        /\ exitCode # 0
        /\ stdout = <<>>
        /\ InSeq(Reports, stderr)

\* C3 witness: auth-url answered 422
C3_Witness ==
    /\ op = "cli_auth_url"
    /\ pc = "done"
    /\ lastResp.status = 422
    /\ exitCode = 1

----------------------------------------------------------------------------
(* C4 *)

\* the route returned at one of its input checks
RejectedInput ==
    \/ op = "cli_balances" /\ stderr = <<NoUidMsg>>
    \/ op = "web_start" /\ ~Truthy(Strip(args.bank_name))
    \/ op = "web_callback"
        /\ InSeq(LAMBDA m : m.text \in {"Parametre code manquant", "State de retour invalide"},
                 webResp.flashes)

\* C4: an operation other than the transactions fetch sends at most one request;
\* auth-url, exchange-code, balances, /start, /callback and /balances have sent
\* exactly one when they end, once their input checks passed and the JWT of the
\* request could be built; list-accounts, set-default-account, / and /accounts
\* send none.
C4_SingleRequest ==
    (op \notin FetchOps) =>
        /\ Len(requests) <= 1
        /\ (/\ pc = "done"
            /\ op \in {"cli_auth_url", "cli_exchange_code", "cli_balances",
                       "web_start", "web_callback", "web_balances"}
            /\ jwtOK
            /\ ~RejectedInput) => Len(requests) = 1
        /\ op \in {"cli_list_accounts", "cli_set_default_account", "web_index", "web_accounts"}
            => requests = <<>>

\* C4 witness: balances answered 500 and was not asked again
C4_Witness ==
    /\ op = "cli_balances"
    /\ pc = "done"
    /\ lastResp.status = 500
    /\ Len(requests) = 1

----------------------------------------------------------------------------
(* C5 *)

AllowedRequest(r) ==
    \/ r.method = "POST" /\ r.path = <<"auth">>
    \/ r.method = "POST" /\ r.path = <<"sessions">>
    \/ /\ r.method = "GET"
       /\ Len(r.path) = 3
       /\ r.path[1] = "accounts"
       /\ r.path[3] \in {"balances", "transactions"}

\* C5: every request sent is POST /auth, POST /sessions, GET
\* /accounts/{uid}/balances or GET /accounts/{uid}/transactions; no request
\* with another method than GET targets an /accounts/... path.
C5_ReadOnly ==
    \A i \in 1..Len(requests) :
        /\ AllowedRequest(requests[i])
        /\ requests[i].path[1] = "accounts" => requests[i].method = "GET"

\* C5 witness: the CLI read the balances of an account
C5_Witness ==
    /\ op = "cli_balances"
    /\ pc = "done"
    /\ requests = <<Request("GET", <<"accounts", "u1", "balances">>, NoParams)>>

----------------------------------------------------------------------------
(* C6 *)

TopLevelKeys(obj) == {obj.d[i][1] : i \in 1..Len(obj.d)}

RECURSIVE LeafPaths(_, _)
\* the dotted paths to the values of obj that are not objects
LeafPaths(obj, prefix) ==
    IF obj.t # "dict" THEN {IF prefix = "" THEN "value" ELSE prefix}
    ELSE UNION {LeafPaths(obj.d[i][2], IF prefix = "" THEN obj.d[i][1]
                                       ELSE prefix \o "." \o obj.d[i][1]) :
                i \in 1..Len(obj.d)}

\* C6 as stated: flattening does not descend into a value that is an object:
\* the columns of a transaction are exactly its top-level keys.
C6_FlattenTopLevel_Original ==
    (op = "flatten" /\ pc = "done" /\ flat_obj.t = "dict") =>
        DOMAIN flat_out = TopLevelKeys(flat_obj)

\* C6 amended: flattening is recursive: a value that is an object is descended
\* into at any depth, and the columns of a transaction are the dotted paths
\* (key.subkey...) to its values that are not objects; no column holds an
\* object (a list is kept as JSON text under its path).
C6_FlattenLeafPaths ==
    (op = "flatten" /\ pc = "done") =>
        /\ DOMAIN flat_out = LeafPaths(flat_obj, "")
        /\ flat_obj.t = "dict" =>
            \A k \in DOMAIN flat_out : flat_out[k].t \in {"scalar", "text"}

\* C6 witness: an object two levels down gave the column a.a.b
C6_Witness ==
    /\ op = "flatten"
    /\ pc = "done"
    /\ "a" \in TopLevelKeys(flat_obj)
    /\ "a.a.b" \in DOMAIN flat_out

----------------------------------------------------------------------------
(* C7 *)

CachedUids(st) ==
    IF "accounts" \in DOMAIN st
    THEN {st["accounts"][i].uid : i \in 1..Len(st["accounts"])} \ {None}
    ELSE {}

OnlyCachedUid(st) ==
    IF "accounts" \in DOMAIN st /\ Len(st["accounts"]) = 1 THEN st["accounts"][1].uid ELSE None

StoredDefault(st) ==
    IF "default_account_uid" \in DOMAIN st THEN st["default_account_uid"] ELSE None

\* the account by the order of C7, None when the command must fail; an
\* --account-uid counts as given when it is not among notGiven
AccountByOrder(a, st, notGiven) ==
    IF a.account_uid \notin notGiven THEN a.account_uid
    ELSE IF StoredDefault(st) \in CachedUids(st) THEN StoredDefault(st)
    ELSE OnlyCachedUid(st)

\* balances / transactions went on with account uid, or failed for want of one
UsesAccount(uid) ==
    IF uid = None
    THEN pc = "done" /\ exitCode = 1 /\ requests = <<>> /\ stderr = <<NoUidMsg>>
    ELSE /\ stderr # <<NoUidMsg>>
         /\ \A i \in 1..Len(requests) : requests[i].path = <<"accounts", uid, requests[i].path[3]>>

\* C7 as stated: balances and transactions use --account-uid whenever it is
\* given, else the stored default if it is a cached account's uid, else the
\* only cached account's uid, else fail with exit code 1 and no request.
C7_AccountOrder_Original ==
    (op \in {"cli_balances", "cli_transactions"}) =>
        UsesAccount(AccountByOrder(args, localState, {None}))

\* C7 amended: as stated, but --account-uid is used only when given and not
\* empty: an empty --account-uid is treated as not given.
C7_AccountOrder ==
    (op \in {"cli_balances", "cli_transactions"}) =>
        UsesAccount(AccountByOrder(args, localState, {None, ""}))

\* C7 witness: with two accounts cached and no --account-uid, balances asked
\* for the stored default, which is not the first account
C7_Witness ==
    /\ op = "cli_balances"
    /\ pc = "done"
    /\ args.account_uid = None
    /\ StoredDefault(localState) = "u2"
    /\ CachedUids(localState) = {"u1", "u2"}
    /\ requests = <<Request("GET", <<"accounts", "u2", "balances">>, NoParams)>>

----------------------------------------------------------------------------
(* C8 *)

\* C8: set-default-account changes the state file iff the uid is a cached
\* account's, and then only the default_account_uid key; else it exits 1 and
\* the file is as before.
C8_SetDefaultFrame ==
    [][(pc = "idle" /\ op' = "cli_set_default_account") =>
        IF args'.account_uid \in CachedUids(localState)
        THEN /\ exitCode' = 0
             /\ DOMAIN localState' = DOMAIN localState \cup {"default_account_uid"}
             /\ localState'["default_account_uid"] = args'.account_uid
             /\ \A k \in DOMAIN localState \ {"default_account_uid"} :
                    localState'[k] = localState[k]
        ELSE /\ exitCode' = 1
             /\ localState' = localState]_vars

\* C8 witness: the default was set beside a stored session
C8_Witness ==
    /\ op = "cli_set_default_account"
    /\ pc = "done"
    /\ exitCode = 0
    /\ StoredDefault(localState) = "u2"
    /\ {"session_id", "accounts", "updated_at"} \subseteq DOMAIN localState

----------------------------------------------------------------------------
(* C9 *)

\* C9: /callback sends POST /sessions (and so stores a session_id and
\* accounts) only when its state parameter equals the oauth_state that /start
\* stored in this browser session.
C9_CallbackStateChecked ==
    (op = "web_callback" /\ requests # <<>>) =>
        /\ "oauth_state" \in DOMAIN session
        /\ args.state = session["oauth_state"]

----------------------------------------------------------------------------
(* C10 *)

IsText(s) == s.kind \notin {"absent", "empty", "blank"}

MonthLengths(y) ==
    <<31, IF y % 4 = 0 /\ (y % 100 # 0 \/ y % 400 = 0) THEN 29 ELSE 28,
      31, 30, 31, 30, 31, 31, 30, 31, 30, 31>>

IsCalendarDate(s) ==
    /\ s.kind = "ymd"
    /\ s.y >= 1
    /\ s.m \in 1..12
    /\ s.d >= 1
    /\ s.d <= MonthLengths(s.y)[s.m]

\* days since 1970-01-01 of a calendar date, by the civil-calendar formula
DayNumber(dt) ==
    LET y == IF dt.m <= 2 THEN dt.y - 1 ELSE dt.y
        era == y \div 400
        yoe == y - era * 400
        mp == (dt.m + 9) % 12
        doy == (153 * mp + 2) \div 5 + dt.d - 1
        doe == yoe * 365 + (yoe \div 4) - (yoe \div 100) + doy
    IN era * 146097 + doe - 719468

\* the dates of the invocation allow a fetch
WindowAllowed ==
    /\ IsText(args.date_from)
    /\ IsCalendarDate(args.date_from)
    /\ IsText(args.date_to) => IsCalendarDate(args.date_to)
    /\ LET last == IF IsText(args.date_to) THEN DayNumber(args.date_to)
                   ELSE DayNumber(args.today)
           first == DayNumber(args.date_from)
       IN first <= last /\ last - first <= TX_MAX_DAYS

\* C10: the two transactions routes send a request only if date_from is given
\* and a date, date_to (today when not given) is a date, date_from is not
\* after it and the span is at most TX_MAX_DAYS days; else they send none and
\* answer with an error or an empty result.
C10_WindowChecked ==
    (op \in WebFetchOps) =>
        /\ requests # <<>> => WindowAllowed
        /\ ~WindowAllowed =>
            /\ pc = "done"
            /\ requests = <<>>
            /\ webResp.kind \in {"render", "redirect"}
            /\ webResp.result.transactions = <<>>
            /\ webResp.kind = "redirect" => webResp.flashes # <<>>

\* C10 witness: no date_to, and today is exactly TX_MAX_DAYS days after date_from
C10_Witness ==
    /\ op = "web_transactions_csv"
    /\ requests # <<>>
    /\ args.date_to = DAbsent
    /\ DayNumber(args.today) - DayNumber(args.date_from) = TX_MAX_DAYS

----------------------------------------------------------------------------
(* C11 *)

LoadEnded == load.raised # None \/ load.pos > Len(WebModule)

\* flask, requests and jwt are installed and the two numeric settings parse
SoundEnvironment ==
    /\ load.installed = ThirdParty
    /\ IntParses(load.environ["WEB_TX_MAX_DAYS"])
    /\ IntParses(load.environ["WEB_SESSION_DAYS"])

\* C11: the before-request hook runs before every route handler (and so
\* restores session_id and accounts after a restart): once the web module has
\* been executed in a sound environment, the app serves its seven routes with
\* _ensure_session_persistence among its before-request functions.
C11_HookBeforeEveryRoute ==
    (LoadEnded /\ SoundEnvironment) =>
        /\ load.raised = None
        /\ "_ensure_session_persistence" \in load.before_request_funcs
        /\ load.view_functions = WebRoutes

----------------------------------------------------------------------------
(* C12 *)

\* the last request was answered by a 200 page that carries a continuation_key
KeyPending == lastResp.status = 200 /\ lastResp.continuation_key # 0

\* C12: the web fetch sends at most max_pages requests whatever the bank
\* answers: its loop is over once the max_pages-th page is read, and when that
\* page still carries a continuation_key the route has the items of the first
\* max_pages pages and no error.  The CLI loop has no cap: once it has sent a
\* request it is over exactly when the last one was not answered by a 200 page
\* carrying a continuation_key, however many pages it has read.
C12_WebCappedCliNot ==
    /\ (op \in WebFetchOps) =>
        /\ Len(requests) <= max_pages
        /\ pc = "fetching" => Len(requests) < max_pages /\ pages = Len(requests)
        /\ (pc = "done" /\ Len(requests) = max_pages /\ KeyPending) =>
            /\ webResp.kind \in {"render", "csv"}
            /\ webResp.error = NoMsg
            /\ webResp.flashes = <<>>
            /\ webResp.result.transactions = ItemsUpTo(max_pages)
            /\ webResp.result.count = Len(ItemsUpTo(max_pages))
    /\ (op = "cli_transactions" /\ requests # <<>>) =>
        (pc = "done" <=> ~KeyPending)

\* C12 witness: the CSV route stopped at the cap with a continuation_key pending
C12_Witness ==
    /\ op = "web_transactions_csv"
    /\ pc = "done"
    /\ webResp.kind = "csv"
    /\ Len(requests) = max_pages
    /\ KeyPending

====
